---- MODULE Spec2Model ----
(***************************************************************************)
(* Model of the EntoMLgist label-enrichment pipeline:                      *)
(*   query_gbif_taxonomy / enrich_taxonomy_from_gbif (taxonomy resolver),  *)
(*   link_images_to_taxonomy (confidence fusion and linker),               *)
(*   on the tables of models/database.py.                                  *)
(*                                                                         *)
(* Encoding of Python values:                                              *)
(*   Optional[int]   : an integer, None is NoneInt                         *)
(*   Optional[str]   : a string,   None is NoneStr                         *)
(*   Optional[bool]  : "True" / "False", None is NoneStr                   *)
(*   Optional[float] in [0,1] (extraction confidence) : tenths, 0..10      *)
(*   label quality   : thousandths, 0..1000  (e/10 * g/100 = e*g/1000)     *)
(*   dict            : a function from the keys present to their values    *)
(***************************************************************************)
EXTENDS Integers, Sequences, FiniteSets, TLC

VARIABLES
    comments,        \* table comments: comment_id -> row
    taxa,            \* table taxonomic_names as the open session sees it
    taxaCommitted,   \* table taxonomic_names as committed
    links,           \* table image_taxonomy_links as the open session sees it
    linksCommitted,  \* table image_taxonomy_links as committed
    stage,           \* which asset is running: "idle", "resolver", "linker"
    clock,           \* datetime.now(), advanced between runs
    res,             \* locals of the running enrich_taxonomy_from_gbif
    lnk,             \* locals of the running link_images_to_taxonomy
    lastEvent,            \* the last thing that happened between runs
    qry,             \* one call of query_gbif_taxonomy: inputs and return value
    fus,             \* one evaluation of the label-quality fusion
    nrm,             \* one call of normalize_insect_name: input and return value
    hist,            \* what the stages did so far: the extractor's raw output per
                     \* comment, and the last completed pass over the stages
    ext,             \* locals of the running extract_insect_names_from_comments
    rpd              \* one call of retrieve_post_data: locals, sleeps, outcome

vars == <<comments, taxa, taxaCommitted, links, linksCommitted, stage, clock,
          res, lnk, lastEvent, qry, fus, nrm, hist, ext, rpd>>

----------------------------------------------------------------------------
(* Python values *)

NoneInt == -1
NoneStr == "<None>"
PyNoneDict == [py_none |-> TRUE]
EmptyDict == [k \in {} |-> NoneStr]

PyBool(b) == IF b THEN "True" ELSE "False"

IntKeys == {"key", "usageKey", "acceptedUsageKey", "confidence", "numOccurrences"}

\* dict.get(k): the value, or None when the key is absent
Get(d, k) ==
    IF k \in DOMAIN d THEN d[k]
    ELSE IF k \in IntKeys THEN NoneInt ELSE NoneStr

\* Python truthiness of an Optional[int] / Optional[str]
TruthyInt(v) == v # NoneInt /\ v # 0
TruthyStr(v) == v # NoneStr /\ v # ""

\* Python's  a or b  : a when a is truthy, else b
OrInt(a, b) == IF TruthyInt(a) THEN a ELSE b
OrStr(a, b) == IF TruthyStr(a) THEN a ELSE b

\* str.lower() on the tokens the model uses
Lower(s) ==
    CASE s = "KINGDOM" -> "kingdom"
      [] s = "PHYLUM"  -> "phylum"
      [] s = "CLASS"   -> "class"
      [] s = "ORDER"   -> "order"
      [] s = "FAMILY"  -> "family"
      [] s = "GENUS"   -> "genus"
      [] s = "SPECIES" -> "species"
      [] s = "Cockroach" -> "cockroach"
      [] s = "Kakerlake" -> "kakerlake"
      [] OTHER -> s

Ranks == {"kingdom", "phylum", "class", "order", "family", "genus", "species"}

Upper(r) ==
    CASE r = "kingdom" -> "KINGDOM"
      [] r = "phylum"  -> "PHYLUM"
      [] r = "class"   -> "CLASS"
      [] r = "order"   -> "ORDER"
      [] r = "family"  -> "FAMILY"
      [] r = "genus"   -> "GENUS"
      [] r = "species" -> "SPECIES"
      [] OTHER -> r

Take(s, n) == IF Len(s) <= n THEN s ELSE SubSeq(s, 1, n)

----------------------------------------------------------------------------
(* Confidence fusion, link_images_to_taxonomy lines 336-347 *)

\* e: extraction confidence in tenths or NoneInt; g: GBIF confidence 0..100 or
\* NoneInt; the result in thousandths or NoneInt
\* (the GBIF confidence used without its division by 100)
label_quality_unscaled_gbif(e, g) ==
    IF e # NoneInt /\ g # NoneInt THEN e * g
    ELSE IF e # NoneInt THEN e * 100
    ELSE IF g # NoneInt THEN g * 1000
    ELSE NoneInt

label_quality(e, g) ==
    IF e # NoneInt /\ g # NoneInt THEN e * g
    ELSE IF e # NoneInt THEN e * 100
    ELSE IF g # NoneInt THEN g * 10
    ELSE NoneInt

----------------------------------------------------------------------------
(* query_gbif_taxonomy: parsing of the name_backbone response *)

\* name_match.get('usage', name_match)
usage_data(nm) == IF "usage" \in DOMAIN nm THEN nm["usage"] ELSE nm

\* name_match.get('diagnostics', {})
diagnostics(nm) == IF "diagnostics" \in DOMAIN nm THEN nm["diagnostics"] ELSE EmptyDict

\* name_match.get('classification', [])
classification(nm) ==
    IF "classification" \in DOMAIN nm THEN nm["classification"] ELSE <<>>

\* classification_dict.get(r), after the loop of lines 46-49: the entries are
\* stored under their lower-cased rank, a later entry replacing an earlier one
classification_dict_get(nm, r) ==
    LET cl == classification(nm)
        rankOf(i) == IF "rank" \in DOMAIN cl[i] THEN Lower(cl[i]["rank"]) ELSE ""
        idx == {i \in 1..Len(cl) : rankOf(i) = r}
        last == CHOOSE i \in idx : \A j \in idx : j <= i
    IN  IF idx = {} THEN NoneStr ELSE Get(cl[last], "name")

\* .get on None raises AttributeError (caught by the outer except)
ParseRaises(nm) ==
    \/ usage_data(nm) = PyNoneDict
    \/ diagnostics(nm) = PyNoneDict

\* lines 59-65, one classification rank
rank_field(nm, r) ==
    OrStr(OrStr(classification_dict_get(nm, r), Get(usage_data(nm), r)), Get(nm, r))

\* line 56 and line 55
confidence_field(nm) ==
    OrInt(Get(diagnostics(nm), "confidence"), Get(nm, "confidence"))

match_type_field(nm) ==
    OrStr(Get(diagnostics(nm), "matchType"), Get(nm, "matchType"))

\* line 72-73
is_insect_any_class(class_name) == PyBool(TruthyStr(class_name))

is_insect_of(class_name) == PyBool(OrStr(class_name, "") = "Insecta")

\* lines 51-73: the result dict of a match that parses
ParseMatch(nm, now) ==
    LET u == usage_data(nm)
        cls == rank_field(nm, "class")
    IN  [ gbif_usage_key        |-> OrInt(Get(u, "key"), Get(nm, "usageKey")),
          gbif_accepted_key     |-> Get(nm, "acceptedUsageKey"),
          gbif_taxonomic_status |-> OrStr(Get(u, "status"), Get(nm, "status")),
          gbif_match_type       |-> match_type_field(nm),
          gbif_confidence       |-> confidence_field(nm),
          scientific_name       |-> OrStr(OrStr(Get(u, "name"), Get(u, "scientificName")),
                                          Get(nm, "scientificName")),
          canonical_name        |-> OrStr(Get(u, "canonicalName"), Get(nm, "canonicalName")),
          kingdom               |-> rank_field(nm, "kingdom"),
          phylum                |-> rank_field(nm, "phylum"),
          class_name            |-> cls,
          order                 |-> rank_field(nm, "order"),
          family                |-> rank_field(nm, "family"),
          genus                 |-> rank_field(nm, "genus"),
          species               |-> rank_field(nm, "species"),
          rank                  |-> OrStr(Get(u, "rank"), Get(nm, "rank")),
          lookup_success        |-> TRUE,
          lookup_timestamp      |-> now,
          is_insect             |-> is_insect_of(cls) ]

----------------------------------------------------------------------------
(* query_gbif_taxonomy: the secondary calls, lines 81-124 *)

VERNACULAR_LIMIT == 10

\* An outcome of a call of the authority: [kind |-> "raise", err |-> message] or
\* [kind |-> "value", value |-> what the call returned]
Raised(o) == o.kind = "raise"

\* Python truthiness of a returned dict (None and {} are falsy)
TruthyDict(d) == d # PyNoneDict /\ d # EmptyDict

\* v.get('vernacularName', '').lower() raises when the value is None
VernacularRaises(v) ==
    \/ Raised(v)
    \/ /\ TruthyDict(v.value)
       /\ "results" \in DOMAIN v.value
       /\ \E i \in 1..Len(v.value["results"]) :
              /\ "vernacularName" \in DOMAIN v.value["results"][i]
              /\ v.value["results"][i]["vernacularName"] = NoneStr

\* lines 90-106: the English names first, then the others, lower-cased
all_names(v) ==
    LET rs == v.value["results"]
        vname(x) == IF "vernacularName" \in DOMAIN x THEN Lower(x["vernacularName"]) ELSE ""
        lang(x) == IF "language" \in DOMAIN x THEN x["language"] ELSE ""
        isEng(x) == vname(x) # "" /\ lang(x) \in {"eng", "en"}
        isOther(x) == vname(x) # "" /\ lang(x) \notin {"eng", "en"}
        eng == SelectSeq(rs, isEng)
        oth == SelectSeq(rs, isOther)
    IN  [i \in 1..Len(eng) |-> vname(eng[i])] \o [i \in 1..Len(oth) |-> vname(oth[i])]

\* the keys the vernacular block adds to the result (json.dumps of the list is
\* modelled as the list)
vernacular_part(v) ==
    IF VernacularRaises(v) THEN EmptyDict
    ELSE IF ~(TruthyDict(v.value) /\ "results" \in DOMAIN v.value) THEN EmptyDict
    ELSE IF all_names(v) = <<>> THEN EmptyDict
    ELSE "vernacular_names" :> Take(all_names(v), VERNACULAR_LIMIT)

\* the keys the metrics block adds to the result
metrics_part(m) ==
    IF Raised(m) THEN EmptyDict
    ELSE IF TruthyDict(m.value) /\ "numOccurrences" \in DOMAIN m.value
         THEN "num_occurrences" :> m.value["numOccurrences"]
         ELSE EmptyDict

\* The body of query_gbif_taxonomy, lines 21-134, with its two levels of
\* exception handling made explicit:
\*   outerTry: the try/except of lines 21 and 128-134 around the whole body
\*   innerTry: the try/except blocks of lines 83-112 and 115-124
\* primary, vern, metrics are the outcomes of the authority's three calls.
\* Returns [ret, data, calls]: ret is "dict" (data is the returned dict), "None",
\* or "raise" (an exception leaves the function); calls are the calls made.
query_body(primary, vern, metrics, now, innerTry, outerTry) ==
    LET failure(err, calls) ==
            IF outerTry
            THEN [ ret |-> "dict", calls |-> calls,
                   data |-> [ lookup_success |-> FALSE, lookup_error |-> err,
                              lookup_timestamp |-> now ] ]
            ELSE [ ret |-> "raise", calls |-> calls, data |-> EmptyDict ]
    IN  IF Raised(primary) THEN failure(primary.err, <<"name_backbone">>)
        ELSE IF ~TruthyDict(primary.value)
        THEN [ret |-> "None", calls |-> <<"name_backbone">>, data |-> EmptyDict]
        ELSE IF ParseRaises(primary.value)
        THEN failure("AttributeError", <<"name_backbone">>)
        ELSE
            LET result == ParseMatch(primary.value, now)
                key == result.gbif_usage_key
            IN  IF ~TruthyInt(key)
                THEN [ret |-> "dict", calls |-> <<"name_backbone">>, data |-> result]
                ELSE IF ~innerTry /\ VernacularRaises(vern)
                THEN failure("vernacular", <<"name_backbone", "vernacularNames">>)
                ELSE IF ~innerTry /\ Raised(metrics)
                THEN failure("metrics", <<"name_backbone", "vernacularNames", "metrics">>)
                ELSE [ ret |-> "dict",
                       calls |-> <<"name_backbone", "vernacularNames", "metrics">>,
                       data |-> vernacular_part(vern) @@ metrics_part(metrics) @@ result ]

query_gbif_taxonomy_no_inner_try(primary, vern, metrics, now) ==
    query_body(primary, vern, metrics, now, FALSE, TRUE)

query_gbif_taxonomy_no_outer_try(primary, vern, metrics, now) ==
    query_body(primary, vern, metrics, now, TRUE, FALSE)

query_gbif_taxonomy(primary, vern, metrics, now) ==
    query_body(primary, vern, metrics, now, TRUE, TRUE)

----------------------------------------------------------------------------
(* Inputs of the single-call specifications *)

GBIF_MAX == 100      \* gbif_confidence is an integer in 0..100
CONF_TENTHS == 10    \* extracted_name_confidence is in [0,1]: 0..10 tenths

RankNames == {"Insecta", "Arachnida"}
ConfValues == {0, 40, 90}

Opt(k, v, none) == IF v = none THEN EmptyDict ELSE k :> v

\* responses that exercise one classification rank: an optional classification
\* list entry (its rank in either letter case), an optional 'usage' object with
\* an optional field, an optional top-level field
RankMatchesOf(r) ==
    { Opt("classification", cl, <<>>) @@ Opt("usage", us, PyNoneDict) @@ Opt(r, top, NoneStr)
        @@ ("usageKey" :> 7) :
        cl \in {<<>>} \cup { <<[rank |-> rk, name |-> v]>> :
                               rk \in {r, Upper(r)}, v \in RankNames },
        us \in {PyNoneDict} \cup { Opt(r, v, NoneStr) : v \in RankNames \cup {NoneStr} },
        top \in RankNames \cup {NoneStr} }

RankMatches == UNION { RankMatchesOf(r) : r \in Ranks }

\* responses that exercise match confidence and match type
DiagMatches ==
    { Opt("diagnostics", dg, EmptyDict) @@ Opt("confidence", tc, NoneInt)
        @@ Opt("matchType", tm, NoneStr) @@ ("class" :> "Insecta") :
        dg \in { Opt("confidence", dc, NoneInt) @@ Opt("matchType", dm, NoneStr) :
                   dc \in ConfValues \cup {NoneInt}, dm \in {"EXACT", NoneStr} }
               \cup {PyNoneDict},
        tc \in ConfValues \cup {NoneInt},
        tm \in {"FUZZY", NoneStr} }

\* responses for the secondary calls: with a usage key (new or legacy place) or none
KeyMatches ==
    { Opt("usage", us, PyNoneDict) @@ Opt("usageKey", tk, NoneInt)
        @@ ("class" :> "Insecta") @@ ("confidence" :> 90) :
        us \in {PyNoneDict, "key" :> 7, EmptyDict},
        tk \in {NoneInt, 9} }
    \cup { ("usage" :> PyNoneDict) @@ ("usageKey" :> 9) }

Value(v) == [kind |-> "value", value |-> v]
Raise(e) == [kind |-> "raise", err |-> e]

VernacularOutcomes ==
    { Raise("HTTP 503"),
      Value(PyNoneDict),
      Value("offset" :> 0),
      Value("results" :> <<>>),
      Value("results" :> << [vernacularName |-> "Kakerlake", language |-> "deu"],
                            [vernacularName |-> "Cockroach", language |-> "eng"],
                            [language |-> "fra"] >>),
      Value("results" :> << [vernacularName |-> NoneStr, language |-> "eng"] >>) }

MetricsOutcomes ==
    { Raise("HTTP 503"), Value(PyNoneDict), Value(EmptyDict),
      Value("numOccurrences" :> 1200) }

NoSecondary == Value(PyNoneDict)

QueryInputs ==
    { [primary |-> Value(nm), vern |-> NoSecondary, metrics |-> NoSecondary] :
        nm \in RankMatches \cup DiagMatches }
    \cup
    { [primary |-> p, vern |-> v, metrics |-> m] :
        p \in { Value(nm) : nm \in KeyMatches }
              \cup {Raise("timeout"), Value(PyNoneDict), Value(EmptyDict)},
        v \in VernacularOutcomes, m \in MetricsOutcomes }

QueryIdle == [pc |-> "idle"]
FusionIdle == [pc |-> "idle"]

\* one call of query_gbif_taxonomy
QueryCall ==
    /\ qry.pc = "ready"
    /\ qry' = [ pc |-> "done", primary |-> qry.primary, vern |-> qry.vern,
                metrics |-> qry.metrics,
                out |-> query_gbif_taxonomy(qry.primary, qry.vern, qry.metrics, clock) ]
    /\ UNCHANGED <<comments, taxa, taxaCommitted, links, linksCommitted, stage, clock,
                   res, lnk, lastEvent, fus, nrm, ext, rpd, hist>>

\* one evaluation of the label quality of a pair
Fuse ==
    /\ fus.pc = "ready"
    /\ fus' = [pc |-> "done", e |-> fus.e, g |-> fus.g, q |-> label_quality(fus.e, fus.g)]
    /\ UNCHANGED <<comments, taxa, taxaCommitted, links, linksCommitted, stage, clock,
                   res, lnk, lastEvent, qry, nrm, ext, rpd, hist>>

----------------------------------------------------------------------------
(* name_normalization.py. A Python str is the sequence of its characters;
   None where a str is expected is NoneText. *)

NoneText == <<NoneStr>>

WHITESPACE == {" ", "\t"}
PUNCTUATION == {".", ",", ";", ":", "!", "?"}
VOWELS == {"a", "e", "i", "o", "u"}

UPPERCASE == <<"A", "B", "C", "D", "E", "F", "G", "H", "I", "J", "K", "L", "M", "N", "O", "P", "Q", "R", "S", "T", "U", "V", "W", "X", "Y", "Z">>
LOWERCASE == <<"a", "b", "c", "d", "e", "f", "g", "h", "i", "j", "k", "l", "m", "n", "o", "p", "q", "r", "s", "t", "u", "v", "w", "x", "y", "z">>

\* str.lower()
lower_char(ch) ==
    IF \E k \in DOMAIN UPPERCASE : UPPERCASE[k] = ch
    THEN LOWERCASE[CHOOSE k \in DOMAIN UPPERCASE : UPPERCASE[k] = ch]
    ELSE ch

str_lower(s) == [k \in 1..Len(s) |-> lower_char(s[k])]

\* str.lstrip(chars), str.rstrip(chars), str.strip(chars)
RECURSIVE lstrip(_, _)
lstrip(s, chars) ==
    IF s # <<>> /\ Head(s) \in chars THEN lstrip(Tail(s), chars) ELSE s

RECURSIVE rstrip(_, _)
rstrip(s, chars) ==
    IF s # <<>> /\ s[Len(s)] \in chars THEN rstrip(SubSeq(s, 1, Len(s) - 1), chars) ELSE s

strip(s, chars) == rstrip(lstrip(s, chars), chars)

startswith(s, prefix) == Len(prefix) <= Len(s) /\ SubSeq(s, 1, Len(prefix)) = prefix

endswith(s, suffix) ==
    Len(suffix) <= Len(s) /\ SubSeq(s, Len(s) - Len(suffix) + 1, Len(s)) = suffix

\* s[:-n]
DropLast(s, n) == SubSeq(s, 1, Len(s) - n)

\* str.replace(old, new): every occurrence, left to right, without overlap
RECURSIVE replace(_, _, _)
replace(s, old, new) ==
    IF s = <<>> THEN <<>>
    ELSE IF startswith(s, old)
         THEN new \o replace(SubSeq(s, Len(old) + 1, Len(s)), old, new)
         ELSE <<Head(s)>> \o replace(Tail(s), old, new)

\* the length of the first word of a text that starts with one
WordLen(t) ==
    IF \E k \in 1..Len(t) : t[k] \in WHITESPACE
    THEN (CHOOSE k \in 1..Len(t) :
             t[k] \in WHITESPACE /\ \A j \in 1..(k - 1) : t[j] \notin WHITESPACE) - 1
    ELSE Len(t)

\* str.split(): the words between runs of whitespace
RECURSIVE split(_)
split(s) ==
    LET t == lstrip(s, WHITESPACE)
    IN  IF t = <<>> THEN <<>>
        ELSE <<SubSeq(t, 1, WordLen(t))>> \o split(SubSeq(t, WordLen(t) + 1, Len(t)))

\* ' '.join(words)
RECURSIVE join(_)
join(words) ==
    IF words = <<>> THEN <<>>
    ELSE IF Len(words) = 1 THEN words[1]
    ELSE words[1] \o <<" ">> \o join(Tail(words))

\* a dict as the sequence of its (key, value) items in insertion order
HasKey(items, key) == \E k \in DOMAIN items : items[k][1] = key
ValueOf(items, key) == items[CHOOSE k \in DOMAIN items : items[k][1] = key][2]

\* lines 8-15
INVALID_NAMES ==
    {
      <<"b", "u", "g">>, <<"b", "u", "g", "s">>, <<"i", "t">>, <<"t", "h", "e", "y">>,
      <<"h", "e">>, <<"o", "p">>, <<"s", "n", "o", "t">>, <<"m", "b">>,
      <<"m", "f", "s">>, <<"b", "o", "o", "t", "s">>,
      <<"b", "u", "d", "d", "i", "e", "s", " ", "s", "h", "i", "t">>,
      <<"b", "r", "o", "c", "o", "l", "i">>,
      <<"p", "e", "p", "p", "e", "r", "m", "i", "n", "t">>,
      <<"m", "o", "n", "s", "t", "e", "r", "a", "s">>,
      <<"h", "o", "l", "l", "o", "w", " ", "k", "n", "i", "g", "h", "t">>,
      <<"m", "e", "t", "a", "l", " ", "m", "a", "n", "t", "i", "s">>,
      <<"g", "u", "t", "e", "n", " ", "t", "a", "g">>,
      <<"t", "h", "a", "s", "n", "k">>,
      <<"b", "l", "i", "n", "d", "s", "n", "a", "k", "e">>,
      <<"b", "a", "b", "o", "s", "a", "s", " ", "c", "h", "i", "q", "u", "i", "t", "a", "s">>,
      <<"s", "q", "u", "a", "t", "h", "o", "p", "p", "e", "r", "s">>,
      <<"c", "a", "m", "t", "e", "r", "p", "i", "n", "l", "r">>,
      <<"b", "e", "e", "f", "y", " ", "t", "h", "i", "g", "h", "s">>,
      <<"f", "u", "z", "z", "y", " ", "b", "u", "t", "t", " ", "b", "u", "g", "s">>,
      <<"l", "i", "t", "t", "l", "e", " ", "b", "u", "g", "s">>,
      <<"b", "u", "g", " ", "b", "i", "t", "s">>,
      <<"m", "y", "s", "t", "e", "r", "y", " ", "b", "u", "g">>,
      <<"i", "t", "s", "a", "c", "a", "r", "p", "e", "t", "b", "e", "e", "t", "l", "e">>,
      <<"l", "o", "u", "s", "e", "-", "y">>,
      <<"d", "e", "a", "t", "h", "s", " ", "h", "e", "a", "d">>,
      <<"m", "i", "r", "a", "c", "l", "e", " ", "b", "u", "g">>
    }
\* lines 18-26
WORD_SYNONYMS ==
    <<
       << <<"r", "o", "a", "c", "h">>,
          <<"c", "o", "c", "k", "r", "o", "a", "c", "h">> >>,
       << <<"b", "e", "d", "b", "u", "g">>,
          <<"b", "e", "d", " ", "b", "u", "g">> >>,
       << <<"s", "t", "i", "n", "k", "b", "u", "g">>,
          <<"s", "t", "i", "n", "k", " ", "b", "u", "g">> >>,
       << <<"r", "o", "l", "y", "-", "p", "o", "l", "y">>,
          <<"p", "i", "l", "l", " ", "b", "u", "g">> >>,
       << <<"r", "o", "l", "y", "p", "o", "l", "y">>,
          <<"p", "i", "l", "l", " ", "b", "u", "g">> >>,
       << <<"p", "s", "o", "c", "i", "d">>,
          <<"b", "o", "o", "k", "l", "o", "u", "s", "e">> >>,
       << <<"c", "o", "c", "k", "e", "r">>,
          <<"c", "o", "c", "k", "r", "o", "a", "c", "h">> >>
    >>
\* lines 29-35
PHRASE_REPLACEMENTS ==
    <<
       << <<"l", "a", "d", "y", " ", "b", "e", "e", "t", "l", "e">>,
          <<"l", "a", "d", "y", "b", "u", "g">> >>,
       << <<"b", "o", "o", "k", " ", "l", "i", "c", "e">>,
          <<"b", "o", "o", "k", "l", "o", "u", "s", "e">> >>,
       << <<"b", "o", "o", "k", " ", "l", "o", "u", "s", "e">>,
          <<"b", "o", "o", "k", "l", "o", "u", "s", "e">> >>,
       << <<"p", "r", "e", "y", "i", "n", "g", " ", "m", "a", "n", "t", "i", "s">>,
          <<"p", "r", "a", "y", "i", "n", "g", " ", "m", "a", "n", "t", "i", "s">> >>,
       << <<"d", "a", "d", "d", "y", " ", "l", "o", "n", "g", " ", "l", "e", "g">>,
          <<"d", "a", "d", "d", "y", " ", "l", "o", "n", "g", " ", "l", "e", "g", "s">> >>
    >>
\* lines 38-41
IRREGULAR_PLURALS ==
    <<
       << <<"l", "i", "c", "e">>,
          <<"l", "o", "u", "s", "e">> >>,
       << <<"f", "l", "i", "e", "s">>,
          <<"f", "l", "y">> >>
    >>

\* lines 44-50: re.sub of the k-th pattern of PLURAL_PATTERNS on a word
PLURAL_PATTERNS(k, word) ==
    CASE k = 1 /\ endswith(word, <<"c", "h", "e", "s">>) -> DropLast(word, 4) \o <<"c", "h">>
      [] k = 2 /\ endswith(word, <<"i", "e", "s">>) /\ Len(word) >= 4
               /\ word[Len(word) - 3] \notin VOWELS -> DropLast(word, 3) \o <<"y">>
      [] k = 3 /\ endswith(word, <<"v", "e", "s">>) -> DropLast(word, 3) \o <<"f">>
      [] k = 4 /\ endswith(word, <<"e", "s">>)
               /\ \/ Len(word) >= 3 /\ word[Len(word) - 2] \in {"s", "x", "z"}
                  \/ endswith(word, <<"c", "h", "e", "s">>)
                  \/ endswith(word, <<"s", "h", "e", "s">>) -> DropLast(word, 2)
      [] k = 5 /\ endswith(word, <<"s">>) /\ Len(word) >= 2
               /\ word[Len(word) - 1] # "s" -> DropLast(word, 1)
      [] OTHER -> word

\* lines 53-65
singularize(word) ==
    IF HasKey(IRREGULAR_PLURALS, word) THEN ValueOf(IRREGULAR_PLURALS, word)
    ELSE LET changing == {k \in 1..5 : PLURAL_PATTERNS(k, word) # word}
         IN  IF changing = {} THEN word
             ELSE PLURAL_PATTERNS(CHOOSE k \in changing : \A j \in changing : k <= j, word)

\* line 71: re.sub(r'[-\s]+', ' ', text)
RECURSIVE sub_separator_runs(_)
sub_separator_runs(s) ==
    IF s = <<>> THEN <<>>
    ELSE IF Head(s) \in WHITESPACE \cup {"-"}
         THEN <<" ">> \o sub_separator_runs(lstrip(s, WHITESPACE \cup {"-"}))
         ELSE <<Head(s)>> \o sub_separator_runs(Tail(s))

\* line 73: re.sub(r'\s*-\s*', '-', text)
RECURSIVE sub_spaced_hyphens(_)
sub_spaced_hyphens(s) ==
    IF s = <<>> THEN <<>>
    ELSE LET rest == lstrip(s, WHITESPACE)
         IN  IF rest # <<>> /\ Head(rest) = "-"
             THEN <<"-">> \o sub_spaced_hyphens(lstrip(Tail(rest), WHITESPACE))
             ELSE <<Head(s)>> \o sub_spaced_hyphens(Tail(s))

\* (variant: without the substitution of line 71)
normalize_spacing_keeping_hyphens(text) ==
    strip(sub_spaced_hyphens(text), WHITESPACE)

\* lines 68-74
normalize_spacing(text) ==
    strip(sub_spaced_hyphens(sub_separator_runs(text)), WHITESPACE)

\* lines 77-92
replace_word_synonyms(text) ==
    LET words == split(text)
    IN  join([k \in 1..Len(words) |->
                LET clean_word == strip(words[k], PUNCTUATION)
                IN  IF HasKey(WORD_SYNONYMS, clean_word)
                    THEN ValueOf(WORD_SYNONYMS, clean_word)
                    ELSE words[k]])

\* lines 114-115: the phrases from the k-th on, each replaced in turn
RECURSIVE replace_phrases(_, _)
replace_phrases(text, k) ==
    IF k > Len(PHRASE_REPLACEMENTS) THEN text
    ELSE replace_phrases(
             replace(text, PHRASE_REPLACEMENTS[k][1], PHRASE_REPLACEMENTS[k][2]), k + 1)

\* line 125: the result is kept
\* (variant: only the length is looked at)
valid_result_by_length(normalized) == ~(Len(normalized) <= 2)

valid_result(normalized) == ~(Len(normalized) <= 2 \/ normalized \in INVALID_NAMES)

\* lines 95-128
normalize_insect_name(name) ==
    IF name = NoneText \/ name = <<>> THEN NoneText
    ELSE
      LET spaced == normalize_spacing(str_lower(strip(name, WHITESPACE)))
      IN  IF spaced \in INVALID_NAMES THEN NoneText
          ELSE
            LET phrased == replace_phrases(spaced, 1)
                synonymed == replace_word_synonyms(phrased)
                words == split(synonymed)
                singular_words == [k \in 1..Len(words) |-> singularize(words[k])]
                normalized == normalize_spacing(join(singular_words))
            IN  IF valid_result(normalized) THEN normalized ELSE NoneText

----------------------------------------------------------------------------
(* One call of normalize_insect_name on every raw name made of one or two of
   these words *)

NormWords ==
    {
      <<"r", "o", "a", "c", "h">>, <<"r", "o", "a", "c", "h", "e", "s">>,
      <<"R", "o", "a", "c", "h", "e", "s">>,
      <<"c", "o", "c", "k", "r", "o", "a", "c", "h">>,
      <<"c", "o", "c", "k", "e", "r">>, <<"b", "u", "g">>, <<"b", "u", "g", "s">>,
      <<"m", "y", "s", "t", "e", "r", "y">>, <<"m", "i", "r", "a", "c", "l", "e">>,
      <<"l", "a", "d", "y">>, <<"b", "e", "e", "t", "l", "e">>,
      <<"b", "e", "e", "t", "l", "e", "s">>, <<"B", "o", "o", "k">>,
      <<"l", "i", "c", "e">>, <<"L", "i", "c", "e">>, <<"l", "o", "u", "s", "e">>, <<"f", "l", "i", "e", "s">>,
      <<"b", "u", "t", "t", "e", "r", "f", "l", "i", "e", "s">>,
      <<"m", "a", "n", "t", "i", "s">>, <<"p", "r", "e", "y", "i", "n", "g">>,
      <<"i", "t">>, <<"a", "b">>, <<"y">>,
      <<"s", "t", "i", "n", "k", "b", "u", "g", "s">>,
      <<"p", "s", "o", "c", "i", "d", ",">>,
      <<"r", "o", "l", "y", "p", "o", "l", "y">>, <<"r", "o", "l", "y">>,
      <<"p", "o", "l", "y">>, <<"w", "a", "s", "p", "s">>,
      <<"m", "o", "t", "h", "s", "!">>, <<"l", "e", "a", "v", "e", "s">>,
      <<"b", "o", "x", "e", "s">>, <<"b", "o", "o", "t", "s">>,
      <<"g", "l", "a", "s", "s">>,
      <<"d", "a", "d", "d", "y", " ", "l", "o", "n", "g", " ", "l", "e", "g">>
    }

NormSeparators == {<<" ">>, <<"-">>, <<" ", " ">>, <<" ", "-", " ">>, <<"\t">>}

NormInputs ==
    {NoneText, <<>>} \cup NormWords
    \cup {<<" ">> \o w \o <<" ">> : w \in NormWords}
    \cup {a \o sep \o b : a \in NormWords, sep \in NormSeparators, b \in NormWords}

NormIdle == [pc |-> "idle"]
RpdIdle == [pc |-> "idle"]

\* one call of normalize_insect_name
NormalizeCall ==
    /\ nrm.pc = "ready"
    /\ nrm' = [pc |-> "done", raw |-> nrm.raw, out |-> normalize_insect_name(nrm.raw)]
    /\ UNCHANGED <<comments, taxa, taxaCommitted, links, linksCommitted, stage, clock,
                   res, lnk, lastEvent, qry, fus, hist, ext, rpd>>

----------------------------------------------------------------------------
(* The tables, models/database.py *)

MaxRuns == 3         \* runs of the resolver and the linker in one behaviour

\* The fetched data: comments 1 and 2 are on post 1, any other comment on
\* post 2; image i is the image of post i. Extracted names are numbered.
CommentIds == {1, 2}
ExtractedNames == {1, 2}
ImageIds == {1, 2}

PostOfComment(c) == IF c <= 2 THEN 1 ELSE 2
PostOfImage(i) == i
UpvotesOf(c) == c

\* the extractor's confidence: none (an entity given as a plain string), 0.5 or 0.9
ExtractionConfidences == {NoneInt, 5, 9}

\* a Comment row as populate_comments stores it: nothing extracted yet
NewComment(c) ==
    [ comment_id |-> c, parent_post_id |-> PostOfComment(c), upvotes |-> UpvotesOf(c),
      extracted_name |-> NoneInt, extracted_name_confidence |-> NoneInt ]

\* TaxonomicName(common_name=n) with every other column at its default
\* (vernacular_names holds a JSON list or None: None is the empty sequence,
\* which the code never stores)
TaxonomicName(n) ==
    [ common_name |-> n,
      gbif_usage_key |-> NoneInt, gbif_accepted_key |-> NoneInt,
      gbif_taxonomic_status |-> NoneStr, gbif_match_type |-> NoneStr,
      gbif_confidence |-> NoneInt,
      scientific_name |-> NoneStr, canonical_name |-> NoneStr,
      kingdom |-> NoneStr, phylum |-> NoneStr, class_name |-> NoneStr,
      order |-> NoneStr, family |-> NoneStr, genus |-> NoneStr, species |-> NoneStr,
      rank |-> NoneStr, vernacular_names |-> <<>>,
      lookup_timestamp |-> NoneInt, lookup_success |-> FALSE, lookup_error |-> NoneStr,
      is_insect |-> NoneStr, num_occurrences |-> NoneInt ]

\* (variant: the columns without a value in data go back to their defaults)
SetAttrs_replacing_row(row, data) ==
    [k \in DOMAIN row |-> IF k \in DOMAIN data THEN data[k]
                          ELSE TaxonomicName(row.common_name)[k]]

\* for key, value in data.items(): setattr(row, key, value)
SetAttrs(row, data) ==
    [k \in DOMAIN row |-> IF k \in DOMAIN data THEN data[k] ELSE row[k]]

\* session.get(Model, key): the row, or None
Has(table, key) == key \in DOMAIN table

\* session.add of a new row
Added(table, key, row) == (key :> row) @@ table

ImageTaxonomyLink(i, n, c, e, g, q, up) ==
    [ image_id |-> i, common_name |-> n, comment_id |-> c,
      extraction_confidence |-> e, gbif_confidence |-> g, label_quality_score |-> q,
      comment_upvotes |-> up, is_top_identification |-> FALSE ]

NoRows == [k \in {} |-> 0]

\* What the stages did so far. mention: the name the extractor returned for a
\* comment (extracted_data, comment_extraction.py line 67). chain: how far the
\* stages have completed in the order normalization, resolution, linking since
\* the comments last changed otherwise (1..3 a first pass, 4..6 a second one).
\* snap: the names, the taxonomy keys and the links left by the first pass.
NoSnap == [names |-> NoRows, keys |-> {}, links |-> NoRows]
HistIdle == [mention |-> NoRows, chain |-> 0, snap |-> NoSnap]

----------------------------------------------------------------------------
(* enrich_taxonomy_from_gbif, lines 137-221 *)

RESOLVER_BATCH == 10

\* lines 142-148: the distinct non-null extracted names
unique_names == { comments[c].extracted_name : c \in DOMAIN comments } \ {NoneInt}

\* lines 164-168: the skip of names already enriched is commented out
\* ("temporary bypass to recheck all names"), so no name is skipped
\* (variant: every name that has a record is skipped)
skip_any_existing(table, n) == Has(table, n)

skip_enriched(table, n) == FALSE

\* line 217: commit when the number of processed names is a multiple of the batch
commit_due_new_only(new_lookups, updated_lookups) ==
    new_lookups % RESOLVER_BATCH = 0

commit_due(new_lookups, updated_lookups) ==
    (new_lookups + updated_lookups) % RESOLVER_BATCH = 0

LnkIdle ==
    [ status |-> "none", remaining |-> {}, rerun |-> FALSE,
      new_links |-> 0, updated_links |-> 0, skipped_links |-> 0,
      start |-> NoRows, reported |-> {} ]

ResIdle ==
    [ status |-> "none", names |-> {}, remaining |-> {}, rerun |-> FALSE,
      afterRaise |-> FALSE, new_lookups |-> 0, updated_lookups |-> 0,
      start |-> NoRows, queried |-> {}, outcome |-> NoRows, cause |-> NoRows,
      uncommitted |-> {}, maxUncommitted |-> 0, commits |-> 0 ]

\* the asset starts: lines 140-158
ResolverStart ==
    /\ stage = "idle"
    /\ clock < MaxRuns
    /\ stage' = "resolver"
    /\ clock' = clock + 1
    /\ res' = [ResIdle EXCEPT !.status = "running", !.names = unique_names,
                              !.remaining = unique_names,
                              !.start = taxa, !.rerun = (lastEvent = "resolver")]
    /\ lnk' = LnkIdle
    /\ UNCHANGED <<comments, taxa, taxaCommitted, links, linksCommitted, lastEvent, qry, fus, nrm, ext, rpd, hist>>

\* the kind of answer the authority gave, for the record of the run
AnswerKind(primary) ==
    IF Raised(primary) THEN "raise"
    ELSE IF ~TruthyDict(primary.value) THEN "no match"
    ELSE IF ParseRaises(primary.value) THEN "raise"
    ELSE "match"

AnswerCause(primary) == IF Raised(primary) THEN primary.err ELSE "AttributeError"

\* one iteration of the loop of lines 160-219, for name n, the authority
\* answering its calls with primary, vern, metrics
ResolverStep(n, primary, vern, metrics) ==
    /\ stage = "resolver"
    /\ n \in res.remaining
    /\ UNCHANGED <<comments, links, linksCommitted, clock, lnk, qry, fus, nrm, ext, rpd, hist>>
    /\ IF skip_enriched(taxa, n)
       THEN /\ res' = [res EXCEPT !.remaining = @ \ {n}]
            /\ UNCHANGED <<taxa, taxaCommitted, stage, lastEvent>>
       ELSE
         LET out == query_gbif_taxonomy(primary, vern, metrics, clock)
         IN  IF out.ret = "raise"
             THEN \* the exception leaves the asset: the session is rolled back
                  /\ taxa' = taxaCommitted
                  /\ stage' = "idle"
                  /\ res' = [res EXCEPT !.status = "aborted", !.queried = @ \cup {n}]
                  /\ lastEvent' = "abort"
                  /\ UNCHANGED taxaCommitted
             ELSE
               LET existing == Has(taxa, n)
                   row == IF out.ret = "dict"
                          THEN IF existing THEN SetAttrs(taxa[n], out.data)
                               ELSE SetAttrs(TaxonomicName(n), out.data)
                          ELSE IF existing
                               THEN [taxa[n] EXCEPT !.lookup_success = FALSE,
                                                    !.lookup_timestamp = clock]
                               ELSE [TaxonomicName(n) EXCEPT !.lookup_timestamp = clock]
                   table == IF existing THEN [taxa EXCEPT ![n] = row]
                            ELSE Added(taxa, n, row)
                   new == res.new_lookups + (IF existing THEN 0 ELSE 1)
                   upd == res.updated_lookups + (IF existing THEN 1 ELSE 0)
                   written == res.uncommitted \cup {n}
                   due == commit_due(new, upd)
               IN  /\ taxa' = table
                   /\ taxaCommitted' = IF due THEN table ELSE taxaCommitted
                   /\ res' = [res EXCEPT
                         !.remaining = @ \ {n},
                         !.afterRaise = @ \/ (\E m \in DOMAIN res.outcome :
                                                   res.outcome[m] = "raise"),
                         !.new_lookups = new,
                         !.updated_lookups = upd,
                         !.queried = @ \cup {n},
                         !.outcome = Added(@, n, AnswerKind(primary)),
                         !.cause = Added(@, n, AnswerCause(primary)),
                         !.uncommitted = IF due THEN {} ELSE written,
                         !.maxUncommitted =
                             IF Cardinality(written) > @ THEN Cardinality(written) ELSE @,
                         !.commits = @ + (IF due THEN 1 ELSE 0)]
                   /\ UNCHANGED <<stage, lastEvent>>

\* line 221: the loop is over, the final commit
ResolverFinish ==
    /\ stage = "resolver"
    /\ res.remaining = {}
    /\ taxaCommitted' = taxa
    /\ stage' = "idle"
    /\ res' = [res EXCEPT !.status = "done", !.uncommitted = {}]
    /\ lastEvent' = "resolver"
    /\ hist' = IF hist.chain \in {1, 4} THEN [hist EXCEPT !.chain = @ + 1]
               ELSE [hist EXCEPT !.chain = 0, !.snap = NoSnap]
    /\ UNCHANGED <<comments, taxa, links, linksCommitted, clock, lnk, qry, fus, nrm, ext, rpd>>

----------------------------------------------------------------------------
(* link_images_to_taxonomy, lines 305-391 *)

LINK_BATCH == 100

\* lines 310-317: the comments with a name, joined with the images of their post
comment_image_pairs ==
    { <<c, i>> \in (DOMAIN comments) \X ImageIds :
        /\ comments[c].extracted_name # NoneInt
        /\ PostOfImage(i) = comments[c].parent_post_id }

\* the asset starts: lines 308-323
LinkerStart ==
    /\ stage = "idle"
    /\ clock < MaxRuns
    /\ stage' = "linker"
    /\ clock' = clock + 1
    /\ lnk' = [LnkIdle EXCEPT !.status = "running", !.remaining = comment_image_pairs,
                              !.start = links, !.rerun = (lastEvent = "linker")]
    /\ res' = ResIdle
    /\ UNCHANGED <<comments, taxa, taxaCommitted, links, linksCommitted, lastEvent, qry, fus, nrm, ext, rpd, hist>>

\* lines 352-363: the three stored values compared with the fresh ones, each
\* replaced when it differs
\* (variant: the stored quality score is left as it was)
UpdatedLink_stale_quality(link, e, g, q) ==
    [link EXCEPT !.extraction_confidence = e, !.gbif_confidence = g]

UpdatedLink(link, e, g, q) ==
    [link EXCEPT !.extraction_confidence = e, !.gbif_confidence = g,
                 !.label_quality_score = q]

\* One iteration of the loop of lines 325-389, for the pair (comment c, image i).
\* skipMissing: a pair whose name has no taxonomy record is skipped (lines 329-334).
\* seePending: session.get finds a link added earlier in this session and not
\* yet committed (the session autoflushes before its SELECT; definitions.py
\* line 24 opens the session with the default autoflush).
\* anyClass: is_insect is not looked at.
\* Adding a second row with the key of a pending one fails on the primary key
\* (database.py lines 97-98): the exception leaves the asset and the session is
\* rolled back.
LinkerBody(c, i, skipMissing, seePending, anyClass) ==
    LET comment == comments[c]
        name == comment.extracted_name
        key == <<i, name>>
        rest == lnk.remaining \ {<<c, i>>}
        taxonomy == Has(taxa, name)
    IN
    /\ stage = "linker"
    /\ <<c, i>> \in lnk.remaining
    /\ UNCHANGED <<comments, taxa, taxaCommitted, clock, res, qry, fus, nrm, ext, rpd, hist>>
    /\ IF (skipMissing /\ ~taxonomy)
          \/ (taxonomy /\ ~anyClass /\ taxa[name].is_insect # "True")
       THEN \* lines 329-334: the pair is reported and skipped
            /\ lnk' = [lnk EXCEPT !.remaining = rest, !.skipped_links = @ + 1,
                                  !.reported = @ \cup {<<c, name>>}]
            /\ UNCHANGED <<links, linksCommitted, stage, lastEvent>>
       ELSE
         LET e == comment.extracted_name_confidence
             g == IF taxonomy THEN taxa[name].gbif_confidence ELSE NoneInt
             q == label_quality(e, g)
             existing_link == Has(IF seePending THEN links ELSE linksCommitted, key)
         IN  IF existing_link
             THEN \* lines 352-369: update in place, no commit check
                  LET new == UpdatedLink(links[key], e, g, q)
                      updated == new # links[key]
                  IN  /\ links' = [links EXCEPT ![key] = new]
                      /\ lnk' = [lnk EXCEPT
                            !.remaining = rest,
                            !.updated_links = @ + (IF updated THEN 1 ELSE 0),
                            !.skipped_links = @ + (IF updated THEN 0 ELSE 1)]
                      /\ UNCHANGED <<linksCommitted, stage, lastEvent>>
             ELSE IF Has(links, key)
             THEN \* a second row for a pending key: the flush fails
                  /\ links' = linksCommitted
                  /\ stage' = "idle"
                  /\ lnk' = [lnk EXCEPT !.status = "failed"]
                  /\ lastEvent' = "abort"
                  /\ UNCHANGED linksCommitted
             ELSE \* lines 371-389: create, commit every LINK_BATCH new links
                  LET link == ImageTaxonomyLink(i, name, c, e, g, q, comment.upvotes)
                      table == Added(links, key, link)
                      new == lnk.new_links + 1
                  IN  /\ links' = table
                      /\ linksCommitted' =
                            IF new % LINK_BATCH = 0 THEN table ELSE linksCommitted
                      /\ lnk' = [lnk EXCEPT !.remaining = rest, !.new_links = new]
                      /\ UNCHANGED <<stage, lastEvent>>

\* (variant: a pair without a taxonomy record is linked all the same)
LinkerStep_linking_unresolved(c, i) == LinkerBody(c, i, FALSE, TRUE, TRUE)

\* (variant: the lookup of the existing link sees committed rows only)
LinkerStep_committed_lookup(c, i) == LinkerBody(c, i, TRUE, FALSE, TRUE)

\* (variant: only names resolved as insects are linked)
LinkerStep_insects_only(c, i) == LinkerBody(c, i, TRUE, TRUE, FALSE)

LinkerStep(c, i) == LinkerBody(c, i, TRUE, TRUE, TRUE)

\* line 391: the loop is over, the final commit
LinkerFinish ==
    /\ stage = "linker"
    /\ lnk.remaining = {}
    /\ linksCommitted' = links
    /\ stage' = "idle"
    /\ lnk' = [lnk EXCEPT !.status = "done"]
    /\ lastEvent' = "linker"
    /\ hist' = CASE hist.chain = 2 ->
                       [hist EXCEPT !.chain = 3,
                                    !.snap = [names |-> [c \in DOMAIN comments |->
                                                           comments[c].extracted_name],
                                              keys |-> DOMAIN taxa,
                                              links |-> links]]
                 [] hist.chain = 5 -> [hist EXCEPT !.chain = 6]
                 [] OTHER -> [hist EXCEPT !.chain = 0, !.snap = NoSnap]
    /\ UNCHANGED <<comments, taxa, taxaCommitted, links, clock, res, qry, fus, nrm, ext, rpd>>

----------------------------------------------------------------------------
(* extract_insect_names_from_comments, comment_extraction.py lines 19-82 *)

ExtractorOutcomes ==
    { [kind |-> "raise"], [kind |-> "nothing"] }
    \cup { [kind |-> "entity", text |-> n, confidence |-> e] :
             n \in ExtractedNames, e \in ExtractionConfidences }

\* one iteration of the loop of lines 35-82 for a comment without a name: the
\* first entity is stored and committed; nothing is stored when the extractor
\* finds nothing or raises
ExtractIteration(c, o) ==
    /\ stage = "idle"
    /\ comments[c].extracted_name = NoneInt
    /\ comments' = IF o.kind = "entity"
                   THEN [comments EXCEPT ![c].extracted_name = o.text,
                                         ![c].extracted_name_confidence = o.confidence]
                   ELSE comments
    /\ lastEvent' = IF o.kind = "entity" THEN "extract" ELSE lastEvent
    /\ res' = IF o.kind = "entity" THEN ResIdle ELSE res
    /\ lnk' = IF o.kind = "entity" THEN LnkIdle ELSE lnk
    /\ hist' = IF o.kind = "entity"
               THEN [hist EXCEPT !.mention = (c :> o.text) @@ @, !.chain = 0,
                                 !.snap = NoSnap]
               ELSE hist
    /\ UNCHANGED <<taxa, taxaCommitted, links, linksCommitted, stage, clock, qry, fus, nrm, rpd>>

\* the iteration on its own, as the other stages see it
Extract(c, o) == ExtractIteration(c, o) /\ UNCHANGED ext

\* The asset as a run. selected: the comments of line 20; results: what the
\* extractor returned for each comment gone through.
ExtIdle == [status |-> "none", selected |-> {}, remaining |-> {}, results |-> NoRows]

\* lines 25-27
entity_mapping == {"insect_common_name"}

\* What extractor.extract returns or does: it raises, it returns nothing, or
\* a dict whose 'entities' maps each entity type to the list of its entities,
\* an entity being a (text, confidence) pair
ExtractorResults ==
    LET Entities == [text : ExtractedNames \cup {NoneInt}, confidence : ExtractionConfidences]
        EntityLists ==
            {<<>>} \cup {<<e>> : e \in Entities}
                   \cup {<<[text |-> 1, confidence |-> 9], [text |-> 2, confidence |-> 5]>>}
    IN  { [kind |-> "raise"], [kind |-> "results", entities |-> EmptyDict] }
        \cup { [kind |-> "results", entities |-> ("insect_common_name" :> l)] :
                 l \in EntityLists }
        \cup { [kind |-> "results", entities |-> ("insect_genus" :> <<e>>)] : e \in Entities }
        \cup { [kind |-> "results",
                entities |-> ("insect_genus" :> <<[text |-> 2, confidence |-> 9]>>)
                             @@ ("insect_common_name" :> l)] : l \in EntityLists }

\* lines 41-69: the first entity of a mapped type, when its text is truthy
\* mapped: the entity types looked at
extracted_data_of(results, mapped) ==
    IF results.kind = "raise" THEN [kind |-> "raise"]
    ELSE LET found == {t \in DOMAIN results.entities \cap mapped :
                         /\ results.entities[t] # <<>>
                         /\ results.entities[t][1].text # NoneInt}
         IN  IF found = {} THEN [kind |-> "nothing"]
             ELSE LET first_entity == results.entities[CHOOSE t \in found : TRUE][1]
                  IN  [kind |-> "entity", text |-> first_entity.text,
                       confidence |-> first_entity.confidence]

\* (variant: the first entity of any type is taken)
extracted_data_any_type(results) ==
    extracted_data_of(results, {"insect_common_name", "insect_genus"})

extracted_data(results) == extracted_data_of(results, entity_mapping)

\* lines 19-22
ExtractionStart ==
    /\ stage = "idle"
    /\ ext.status # "running"
    /\ clock < MaxRuns
    /\ clock' = clock + 1
    /\ ext' = [ExtIdle EXCEPT
                 !.status = "running",
                 !.selected = {c \in DOMAIN comments : comments[c].extracted_name = NoneInt},
                 !.remaining = {c \in DOMAIN comments : comments[c].extracted_name = NoneInt}]
    /\ UNCHANGED <<comments, taxa, taxaCommitted, links, linksCommitted, stage, res, lnk,
                   lastEvent, qry, fus, nrm, hist, rpd>>

\* lines 35-82 for the next comment, the extractor answering with results
ExtractionStep(c, results) ==
    /\ ext.status = "running"
    /\ c \in ext.remaining
    /\ ExtractIteration(c, extracted_data(results))
    /\ ext' = [ext EXCEPT !.remaining = @ \ {c}, !.results = Added(@, c, results)]

\* lines 84-86
ExtractionFinish ==
    /\ ext.status = "running"
    /\ ext.remaining = {}
    /\ ext' = [ext EXCEPT !.status = "done"]
    /\ UNCHANGED <<comments, taxa, taxaCommitted, links, linksCommitted, stage, clock, res,
                   lnk, lastEvent, qry, fus, nrm, hist, rpd>>

----------------------------------------------------------------------------
(* normalize_insect_names, name_normalization.py lines 131-161. The numbered
   names of the tables stand for these strings. *)

NameText ==
    << <<"c", "o", "c", "k", "r", "o", "a", "c", "h">>,
       <<"r", "o", "a", "c", "h">>,
       <<"r", "o", "a", "c", "h", "e", "s">>,
       <<"b", "u", "g">> >>

NameOf(text) == CHOOSE n \in DOMAIN NameText : NameText[n] = text

\* line 145 on a numbered name
\* (variant: the name is kept as extracted)
normalized_name_as_extracted(n) == n

\* normalize_insect_name on each numbered name
NormalizedNames ==
    [n \in DOMAIN NameText |->
        LET out == normalize_insect_name(NameText[n])
        IN  IF out = NoneText THEN NoneInt ELSE NameOf(out)]

normalized_name(n) == NormalizedNames[n]

\* lines 144-159 for one comment that has a name
normalized_comment(comment) ==
    LET normalized == normalized_name(comment.extracted_name)
    IN  IF normalized = NoneInt
        THEN [comment EXCEPT !.extracted_name = NoneInt,
                             !.extracted_name_confidence = NoneInt]
        ELSE [comment EXCEPT !.extracted_name = normalized]

\* The asset: every comment with a name is normalized, then one commit.
\* cascade: the links of a comment whose name changes are deleted (the asset
\* does not do this).
NormalizeBody(cascade) ==
    LET table == [c \in DOMAIN comments |->
                    IF comments[c].extracted_name = NoneInt THEN comments[c]
                    ELSE normalized_comment(comments[c])]
        changed == table # comments
    IN
    /\ stage = "idle"
    /\ comments' = table
    /\ lastEvent' = IF changed THEN "normalize" ELSE lastEvent
    /\ res' = IF changed THEN ResIdle ELSE res
    /\ lnk' = IF changed THEN LnkIdle ELSE lnk
    /\ hist' = IF hist.chain = 3 THEN [hist EXCEPT !.chain = 4]
               ELSE [hist EXCEPT !.chain = 1, !.snap = NoSnap]
    /\ links' = IF cascade
                THEN [k \in {k \in DOMAIN links :
                               table[links[k].comment_id] = comments[links[k].comment_id]}
                        |-> links[k]]
                ELSE links
    /\ linksCommitted' = IF cascade THEN links' ELSE linksCommitted
    /\ UNCHANGED <<taxa, taxaCommitted, stage, clock, qry, fus, nrm, ext, rpd>>

\* (variant: with the cascade)
Normalize_cascading == NormalizeBody(TRUE)

Normalize == NormalizeBody(FALSE)

----------------------------------------------------------------------------
(* populate_comments, data_population.py lines 122-164 *)

\* line 9 of constants.py
POST_TOP_COMMENTS_NUM == 3

\* line 146: the most upvoted comments of a post
top_comments(post) ==
    LET of_post == {c \in CommentIds : PostOfComment(c) = post}
    IN  {c \in of_post :
           Cardinality({d \in of_post : UpvotesOf(d) > UpvotesOf(c)}) < POST_TOP_COMMENTS_NUM}

\* line 156: session.merge copies every column of the given object onto the
\* stored row; Comment(...) of lines 150-155 holds the defaults (None) in the
\* columns it was not given
session_merge(row, obj) == [k \in DOMAIN row |-> obj[k]]

\* the asset on the fetched data of the posts: every top comment is merged,
\* then one commit
Populate ==
    LET fetched == UNION {top_comments(PostOfComment(c)) : c \in CommentIds}
        table == [c \in DOMAIN comments |->
                    IF c \in fetched THEN session_merge(comments[c], NewComment(c))
                    ELSE comments[c]]
        changed == table # comments
    IN
    /\ stage = "idle"
    /\ comments' = table
    /\ lastEvent' = IF changed THEN "populate" ELSE lastEvent
    /\ res' = IF changed THEN ResIdle ELSE res
    /\ lnk' = IF changed THEN LnkIdle ELSE lnk
    /\ hist' = [hist EXCEPT !.chain = 0, !.snap = NoSnap]
    /\ UNCHANGED <<taxa, taxaCommitted, links, linksCommitted, stage, clock, qry, fus, nrm, ext, rpd>>

----------------------------------------------------------------------------
(* Abnormal termination of a running asset: the session's uncommitted writes
   are lost *)

Crash ==
    /\ stage # "idle"
    /\ taxa' = taxaCommitted
    /\ links' = linksCommitted
    /\ res' = IF stage = "resolver" THEN [res EXCEPT !.status = "crashed"] ELSE res
    /\ lnk' = IF stage = "linker" THEN [lnk EXCEPT !.status = "crashed"] ELSE lnk
    /\ stage' = "idle"
    /\ lastEvent' = "crash"
    /\ UNCHANGED <<comments, taxaCommitted, linksCommitted, clock, qry, fus, nrm, ext, rpd, hist>>

----------------------------------------------------------------------------
(* The authority's answers in the pipeline *)

InsectMatch ==
    [ usage |-> [key |-> 7, name |-> "Blattodea", rank |-> "ORDER", status |-> "ACCEPTED"],
      diagnostics |-> [confidence |-> 90, matchType |-> "EXACT"],
      classification |-> << [rank |-> "CLASS", name |-> "Insecta"] >> ]

\* the legacy flat shape, a non-insect taxon
SpiderMatch ==
    ("usageKey" :> 9) @@ ("scientificName" :> "Araneae") @@ ("class" :> "Arachnida")
    @@ ("confidence" :> 40) @@ ("matchType" :> "FUZZY")

\* a match without a key, a class or a confidence
BareMatch == "scientificName" :> "Animalia"

\* what the authority knows about name n
MatchOf(n) ==
    CASE n % 3 = 1 -> InsectMatch
      [] n % 3 = 2 -> SpiderMatch
      [] OTHER     -> BareMatch

\* The answers the authority can give for name n: the call fails, there is no
\* match, or the match with its secondary data
AnswerRaise == [primary |-> Raise("timeout"), vern |-> NoSecondary, metrics |-> NoSecondary]
AnswerNoMatch == [primary |-> Value(EmptyDict), vern |-> NoSecondary, metrics |-> NoSecondary]
AnswerMatch(n) ==
    [ primary |-> Value(MatchOf(n)),
      vern |-> IF n % 3 = 1
               THEN Value("results" :> << [vernacularName |-> "Cockroach", language |-> "eng"] >>)
               ELSE Raise("HTTP 503"),
      metrics |-> IF n % 3 = 1 THEN Value("numOccurrences" :> 1200) ELSE Raise("HTTP 503") ]

\* a response whose 'usage' is null: parsing it raises
AnswerMalformed ==
    [ primary |-> Value(("usage" :> PyNoneDict) @@ ("usageKey" :> 9)),
      vern |-> NoSecondary, metrics |-> NoSecondary ]
AnswerBare == [primary |-> Value(BareMatch), vern |-> NoSecondary, metrics |-> NoSecondary]

\* for an odd name the authority may also hold a bare entry, for an even
\* name it may send a malformed response
Answers(n) ==
    {AnswerRaise, AnswerNoMatch, AnswerMatch(n)}
    \cup (IF n % 2 = 1 THEN {AnswerBare} ELSE {AnswerMalformed})

----------------------------------------------------------------------------
(* The pipeline *)

Init ==
    /\ comments = [c \in CommentIds |-> NewComment(c)]
    /\ taxa = NoRows
    /\ taxaCommitted = NoRows
    /\ links = NoRows
    /\ linksCommitted = NoRows
    /\ stage = "idle"
    /\ clock = 0
    /\ res = ResIdle
    /\ lnk = LnkIdle
    /\ lastEvent = "none"
    /\ nrm = NormIdle
    /\ ext = ExtIdle
    /\ rpd = RpdIdle
    /\ hist = HistIdle
    /\ qry = QueryIdle
    /\ fus = FusionIdle

Next ==
    \/ \E c \in DOMAIN comments, o \in ExtractorOutcomes : Extract(c, o)
    \/ ResolverStart
    \/ \E n \in res.remaining : \E a \in Answers(n) :
          ResolverStep(n, a.primary, a.vern, a.metrics)
    \/ ResolverFinish
    \/ LinkerStart
    \/ \E c \in DOMAIN comments, i \in ImageIds : LinkerStep(c, i)
    \/ LinkerFinish

Spec == Init /\ [][Next]_vars

----------------------------------------------------------------------------
(* One run of the resolver over many names, with abnormal termination *)

BatchNames == 11

\* every comment carries its own name; none, half or all of the names already
\* have a record of a failed lookup (an earlier run that found no match)
InitBatch ==
    /\ comments = [c \in 1..BatchNames |->
                     [NewComment(c) EXCEPT !.extracted_name = c,
                                           !.extracted_name_confidence = 9]]
    /\ \E k \in {0, BatchNames \div 2, BatchNames} :
          taxa = [n \in 1..k |-> [TaxonomicName(n) EXCEPT !.lookup_timestamp = 0]]
    /\ taxaCommitted = taxa
    /\ links = NoRows
    /\ linksCommitted = NoRows
    /\ stage = "idle"
    /\ clock = 0
    /\ res = ResIdle
    /\ lnk = LnkIdle
    /\ lastEvent = "resolver"
    /\ qry = QueryIdle
    /\ fus = FusionIdle
    /\ nrm = NormIdle
    /\ ext = ExtIdle
    /\ rpd = RpdIdle
    /\ hist = [HistIdle EXCEPT !.mention = [c \in 1..BatchNames |-> c]]

\* the authority's answer for name n in this run
BatchAnswer(n) ==
    CASE n % 4 = 0 -> AnswerRaise
      [] n % 4 = 1 -> AnswerNoMatch
      [] OTHER     -> AnswerMatch(n)

BatchStart == res.status = "none" /\ ResolverStart

BatchStep ==
    \E n \in res.remaining :
        ResolverStep(n, BatchAnswer(n).primary, BatchAnswer(n).vern, BatchAnswer(n).metrics)

NextBatch ==
    \/ BatchStart
    \/ BatchStep
    \/ ResolverFinish
    \/ Crash

SpecBatch == InitBatch /\ [][NextBatch]_vars

----------------------------------------------------------------------------
(* One run of the linker over many pairs, with abnormal termination *)

LinkPairs == 101

\* every comment is on the post of image 1 and carries its own name, each name
\* has the record of a successful lookup; none, half or all of the links exist
\* already, written when the comment's confidence was 0.5
InitLinkBatch ==
    /\ comments = [c \in 1..LinkPairs |->
                     [NewComment(c) EXCEPT !.parent_post_id = 1,
                                           !.extracted_name = c,
                                           !.extracted_name_confidence = 9]]
    /\ taxa = [n \in 1..LinkPairs |->
                 SetAttrs(TaxonomicName(n),
                          query_gbif_taxonomy(AnswerMatch(1).primary, AnswerMatch(1).vern,
                                              AnswerMatch(1).metrics, 0).data)]
    /\ taxaCommitted = taxa
    /\ \E k \in {0, LinkPairs \div 2, LinkPairs} :
          links = [key \in {1} \X (1..k) |->
                     ImageTaxonomyLink(1, key[2], key[2], 5, 90, label_quality(5, 90),
                                       UpvotesOf(key[2]))]
    /\ linksCommitted = links
    /\ stage = "idle"
    /\ clock = 0
    /\ res = ResIdle
    /\ lnk = LnkIdle
    /\ lastEvent = "resolver"
    /\ qry = QueryIdle
    /\ fus = FusionIdle
    /\ nrm = NormIdle
    /\ ext = ExtIdle
    /\ rpd = RpdIdle
    /\ hist = [HistIdle EXCEPT !.mention = [c \in 1..LinkPairs |-> c]]

\* the pairs come in the order of the comment ids
LinkBatchStep ==
    \E c \in DOMAIN comments :
        /\ \A d \in 1..(c - 1) : <<d, 1>> \notin lnk.remaining
        /\ LinkerStep(c, 1)

NextLinkBatch ==
    \/ lnk.status = "none" /\ LinkerStart
    \/ LinkBatchStep
    \/ LinkerFinish
    \/ Crash

SpecLinkBatch == InitLinkBatch /\ [][NextLinkBatch]_vars

----------------------------------------------------------------------------
(* Runs of the extraction asset *)

NextExtraction ==
    \/ ExtractionStart
    \/ \E c \in DOMAIN comments, results \in ExtractorResults : ExtractionStep(c, results)
    \/ ExtractionFinish

SpecExtraction == Init /\ [][NextExtraction]_vars

----------------------------------------------------------------------------
(* All the stages: populate_comments, extraction, normalization, resolution and
   linking, in any order and any number of times, with an authority that gives
   the same answer for a name every time *)

Cockroach == NameOf(<<"c", "o", "c", "k", "r", "o", "a", "c", "h">>)
Roach == NameOf(<<"r", "o", "a", "c", "h">>)
Roaches == NameOf(<<"r", "o", "a", "c", "h", "e", "s">>)
Bug == NameOf(<<"b", "u", "g">>)

\* the insect names written in the body of a comment: comment 1 is
\* "there's a roach on my wall", comment 2 speaks of roaches and of a bug
Mentions(c) == IF c = 1 THEN {Roach} ELSE {Roaches, Bug}

\* what the extractor finds in a comment: a name as written, with confidence
\* 0.5 or 0.9
StageExtractorOutcomes(c) ==
    { [kind |-> "entity", text |-> n, confidence |-> e] : n \in Mentions(c), e \in {5, 9} }

NextStages ==
    \/ Populate
    \/ \E c \in DOMAIN comments : \E o \in StageExtractorOutcomes(c) : Extract(c, o)
    \/ Normalize
    \/ ResolverStart
    \/ \E n \in res.remaining :
          ResolverStep(n, AnswerMatch(n).primary, AnswerMatch(n).vern, AnswerMatch(n).metrics)
    \/ ResolverFinish
    \/ LinkerStart
    \/ \E c \in DOMAIN comments, i \in ImageIds : LinkerStep(c, i)
    \/ LinkerFinish

SpecStages == Init /\ [][NextStages]_vars

----------------------------------------------------------------------------
(* The stages after a first pass in which the authority had no match *)

\* comment 2 was extracted as 'roaches' and normalized to 'roach'; the resolver
\* found no match and stored the record of the failed lookup; the linker
\* linked image 1 to 'roach' with no match confidence
InitRelink ==
    LET stored == (<<1, Roach>> :>
                     ImageTaxonomyLink(1, Roach, 2, 5, NoneInt, label_quality(5, NoneInt),
                                       UpvotesOf(2)))
    IN
    /\ comments = [c \in CommentIds |->
                     IF c = 2 THEN [NewComment(c) EXCEPT !.extracted_name = Roach,
                                                         !.extracted_name_confidence = 5]
                     ELSE NewComment(c)]
    /\ taxa = (Roach :> [TaxonomicName(Roach) EXCEPT !.lookup_timestamp = 0])
    /\ taxaCommitted = taxa
    /\ links = stored
    /\ linksCommitted = stored
    /\ stage = "idle"
    /\ clock = 0
    /\ res = ResIdle
    /\ lnk = LnkIdle
    /\ lastEvent = "linker"
    /\ qry = QueryIdle
    /\ fus = FusionIdle
    /\ nrm = NormIdle
    /\ ext = ExtIdle
    /\ rpd = RpdIdle
    /\ hist = [mention |-> (2 :> Roaches), chain |-> 3,
               snap |-> [names |-> [c \in CommentIds |-> IF c = 2 THEN Roach ELSE NoneInt],
                         keys |-> {Roach}, links |-> stored]]

SpecRelink == InitRelink /\ [][NextStages]_vars

----------------------------------------------------------------------------
(* One call of query_gbif_taxonomy on every response shape *)

InitQuery ==
    /\ comments = [c \in CommentIds |-> NewComment(c)]
    /\ taxa = NoRows
    /\ taxaCommitted = NoRows
    /\ links = NoRows
    /\ linksCommitted = NoRows
    /\ stage = "idle"
    /\ clock = 1
    /\ res = ResIdle
    /\ lnk = LnkIdle
    /\ lastEvent = "none"
    /\ nrm = NormIdle
    /\ ext = ExtIdle
    /\ rpd = RpdIdle
    /\ hist = HistIdle
    /\ \E i \in QueryInputs :
          qry = [pc |-> "ready", primary |-> i.primary, vern |-> i.vern,
                 metrics |-> i.metrics]
    /\ fus = FusionIdle

NextQuery == QueryCall

SpecQuery == InitQuery /\ [][NextQuery]_vars

----------------------------------------------------------------------------
(* One evaluation of the label quality on every pair of confidences *)

InitFusion ==
    /\ comments = [c \in CommentIds |-> NewComment(c)]
    /\ taxa = NoRows
    /\ taxaCommitted = NoRows
    /\ links = NoRows
    /\ linksCommitted = NoRows
    /\ stage = "idle"
    /\ clock = 0
    /\ res = ResIdle
    /\ lnk = LnkIdle
    /\ lastEvent = "none"
    /\ nrm = NormIdle
    /\ ext = ExtIdle
    /\ rpd = RpdIdle
    /\ hist = HistIdle
    /\ qry = QueryIdle
    /\ \E e \in {NoneInt} \cup 0..CONF_TENTHS, g \in {NoneInt} \cup 0..GBIF_MAX :
          fus = [pc |-> "ready", e |-> e, g |-> g]

NextFusion == Fuse

SpecFusion == InitFusion /\ [][NextFusion]_vars

----------------------------------------------------------------------------
(* One call of normalize_insect_name on every raw name of NormInputs *)

InitNorm ==
    /\ comments = [c \in CommentIds |-> NewComment(c)]
    /\ taxa = NoRows
    /\ taxaCommitted = NoRows
    /\ links = NoRows
    /\ linksCommitted = NoRows
    /\ stage = "idle"
    /\ clock = 0
    /\ res = ResIdle
    /\ lnk = LnkIdle
    /\ lastEvent = "none"
    /\ qry = QueryIdle
    /\ fus = FusionIdle
    /\ \E raw \in NormInputs : nrm = [pc |-> "ready", raw |-> raw]
    /\ ext = ExtIdle
    /\ rpd = RpdIdle
    /\ hist = HistIdle

NextNorm == NormalizeCall

SpecNorm == InitNorm /\ [][NextNorm]_vars

-----------------------------------------------------------------------------
(* One call of retrieve_post_data, pictures/data_population.py lines 16-34.
   Durations are in thousandths of a second; a product with 1.4 is cut to a
   whole number of thousandths. *)

\* constants.py line 7, in seconds
MAX_BACKOFF == 60

\* The caller's arguments: backoff (default 1.0) and max_backoff (default
\* MAX_BACKOFF).  rpd.passed keeps the caller's max_backoff, rpd.max_backoff
\* is the parameter of the frame that is running.
InitRetrieve ==
    /\ comments = [c \in CommentIds |-> NewComment(c)]
    /\ taxa = NoRows
    /\ taxaCommitted = NoRows
    /\ links = NoRows
    /\ linksCommitted = NoRows
    /\ stage = "idle"
    /\ clock = 0
    /\ res = ResIdle
    /\ lnk = LnkIdle
    /\ lastEvent = "none"
    /\ qry = QueryIdle
    /\ fus = FusionIdle
    /\ nrm = NormIdle
    /\ ext = ExtIdle
    /\ \E backoff \in {500, 1000} :
       \E max_backoff \in {2000, 5000, MAX_BACKOFF * 1000} :
          rpd = [pc |-> "request", backoff |-> backoff, max_backoff |-> max_backoff,
                 passed |-> max_backoff, sleeps |-> <<>>, requests |-> 0,
                 status_code |-> NoneInt]
    /\ hist = HistIdle

\* One frame of retrieve_post_data: the request of line 21 answered with
\* status_code, then lines 23-34.  The call of line 28 passes backoff only,
\* so the next frame runs with max_backoff at its default.
retrieve_post_data(status_code) ==
    /\ rpd.pc = "request"
    /\ LET backoff_duration == rpd.backoff
           r == [rpd EXCEPT !.requests = @ + 1, !.status_code = status_code]
           scaled == (backoff_duration * 14) \div 10
       IN  rpd' =
             IF status_code = 429
             THEN IF backoff_duration >= rpd.max_backoff
                  THEN [r EXCEPT !.pc = "raised"]
                  ELSE [r EXCEPT !.sleeps = Append(@, backoff_duration),
                                 !.backoff = IF scaled < rpd.max_backoff
                                             THEN scaled ELSE rpd.max_backoff,
                                 !.max_backoff = MAX_BACKOFF * 1000]
             ELSE IF status_code = 404
             THEN [r EXCEPT !.pc = "returned"]
             ELSE IF status_code # 200
             THEN [r EXCEPT !.pc = "raised"]
             ELSE [r EXCEPT !.pc = "returned"]
    /\ UNCHANGED <<comments, taxa, taxaCommitted, links, linksCommitted, stage, clock,
                   res, lnk, lastEvent, qry, fus, nrm, hist, ext>>

NextRetrieve == \E status_code \in {200, 404, 429, 500} : retrieve_post_data(status_code)

SpecRetrieve == InitRetrieve /\ [][NextRetrieve]_vars

----------------------------------------------------------------------------
(* Properties *)

Range(f) == {f[x] : x \in DOMAIN f}

\* the first value of a precedence list that is not None
FirstNotNoneStr(a, b, c) == IF a # NoneStr THEN a ELSE IF b # NoneStr THEN b ELSE c
FirstNotNoneInt(a, b) == IF a # NoneInt THEN a ELSE b

\* the column that stores classification rank r
ColumnOf(r) == IF r = "class" THEN "class_name" ELSE r

\* thousandths in one unit of label quality
QUALITY_UNITS == CONF_TENTHS * GBIF_MAX

(* C1: the label quality of a pair with extraction confidence e and match
   confidence g is e*(g/100) when both are present, e when only e is, g/100
   when only g is, and null when neither is; 0.8 and 75 give 0.6, 0.5 and null
   give 0.5, null and 40 give 0.4. Stated on e in tenths, g in 0..100 and the
   quality q in thousandths: q/1000 = (e/10)*(g/100), q/1000 = e/10,
   q/1000 = g/100. *)
C1_FusionFormula ==
    fus.pc = "done" =>
        /\ (fus.e # NoneInt /\ fus.g # NoneInt) =>
               fus.q * CONF_TENTHS * GBIF_MAX = fus.e * fus.g * QUALITY_UNITS
        /\ (fus.e # NoneInt /\ fus.g = NoneInt) =>
               fus.q * CONF_TENTHS = fus.e * QUALITY_UNITS
        /\ (fus.e = NoneInt /\ fus.g # NoneInt) =>
               fus.q * GBIF_MAX = fus.g * QUALITY_UNITS
        /\ (fus.e = NoneInt /\ fus.g = NoneInt) => fus.q = NoneInt
        /\ (fus.e = 8 /\ fus.g = 75) => fus.q = 600
        /\ (fus.e = 5 /\ fus.g = NoneInt) => fus.q = 500
        /\ (fus.e = NoneInt /\ fus.g = 40) => fus.q = 400

C1_Witness == fus.pc = "done" /\ fus.e = 8 /\ fus.g = 75 /\ fus.q = 600

(* C2: in every state reached by runs of the resolver and the linker, each
   stored link's label_quality_score is the fusion of the extraction_confidence
   and the gbif_confidence stored on that same link, for links created and for
   links updated in place. *)
C2_LinkQualityIsFusion ==
    \A t \in {links, linksCommitted} : \A k \in DOMAIN t :
        t[k].label_quality_score =
            label_quality(t[k].extraction_confidence, t[k].gbif_confidence)

C2_Witness ==
    /\ lnk.status = "done"
    /\ lnk.new_links >= 1
    /\ lnk.updated_links >= 1
    /\ \E k \in DOMAIN links : links[k].gbif_confidence # NoneInt

(* C3: by default a name whose record has lookup_success = true is not queried
   again and its record is not modified, so a second run with no new names
   queries nothing and writes nothing. *)
C3_EnrichedNamesNotRequeried ==
    res.status \in {"running", "done"} =>
        \A n \in DOMAIN res.start :
            res.start[n].lookup_success =>
                /\ n \notin res.queried
                /\ taxa[n] = res.start[n]

(* C4: a name whose record has lookup_success = false and that is still among
   the extracted names is queried again by the next run without new input, and
   a successful answer makes the record lookup_success = true. *)
C4_FailedLookupsRetried ==
    res.status \in {"running", "done"} =>
        /\ \A n \in res.names \ res.remaining :
              (n \in DOMAIN res.start /\ ~res.start[n].lookup_success) =>
                  /\ n \in res.queried
                  /\ res.outcome[n] = "match" => taxa[n].lookup_success
        /\ res.status = "done" => res.remaining = {}

C4_Witness ==
    /\ res.status = "done"
    /\ res.rerun
    /\ \E n \in DOMAIN res.start :
          /\ ~res.start[n].lookup_success
          /\ n \in res.queried
          /\ res.outcome[n] = "match"
          /\ taxa[n].lookup_success

(* C5: a second run of the linker with no change to comments, images or
   taxonomy records creates no link and updates no link, and leaves the link
   table as it was. *)
C5_LinkerRerunWritesNothing ==
    lnk.rerun =>
        /\ lnk.new_links = 0
        /\ lnk.updated_links = 0
        /\ lnk.status = "done" => links = lnk.start

(* C6: when the primary authority call or the parsing of its response raises
   for a name, the resolver is not interrupted: the name's record is stored
   with lookup_success = false and lookup_error the cause, and the run goes on
   to process every other name. *)
C6_RaisedLookupRecorded ==
    /\ res.status # "aborted"
    /\ res.status \in {"running", "done"} =>
          \A n \in DOMAIN res.outcome :
              res.outcome[n] = "raise" =>
                  /\ Has(taxa, n)
                  /\ ~taxa[n].lookup_success
                  /\ taxa[n].lookup_error = res.cause[n]
    /\ res.status = "done" => res.queried = res.names

C6_Witness ==
    /\ res.status = "done"
    /\ res.afterRaise
    /\ \E n \in DOMAIN res.outcome :
          res.outcome[n] = "raise" /\ taxa[n].lookup_error = "AttributeError"

(* C7: every record with lookup_success = true has is_insect true exactly when
   its class is the literal Insecta, false for any other class and for no
   class. *)
C7_InsectIffClassInsecta ==
    \A t \in {taxa, taxaCommitted} : \A n \in DOMAIN t :
        t[n].lookup_success => t[n].is_insect = PyBool(t[n].class_name = "Insecta")

C7_Witness ==
    /\ \E n \in DOMAIN taxa :
          taxa[n].lookup_success /\ taxa[n].class_name = "Insecta"
          /\ taxa[n].is_insect = "True"
    /\ \E n \in DOMAIN taxa :
          taxa[n].lookup_success /\ taxa[n].class_name = "Arachnida"
          /\ taxa[n].is_insect = "False"

(* C8: in a parsed response every field is the first non-null value of its
   precedence list: for a classification rank the classification-list entry,
   then the 'usage' field, then the top-level field; for match confidence and
   match type the 'diagnostics' field, then the top-level field. *)
C8_FirstNonNullWins ==
    (qry.pc = "done" /\ qry.out.ret = "dict" /\ qry.out.data.lookup_success) =>
        LET nm == qry.primary.value
            data == qry.out.data
        IN  /\ \A r \in Ranks :
                  data[ColumnOf(r)] =
                      FirstNotNoneStr(classification_dict_get(nm, r),
                                      IF "usage" \in DOMAIN nm THEN Get(nm["usage"], r)
                                      ELSE NoneStr,
                                      Get(nm, r))
            /\ data.gbif_confidence =
                  FirstNotNoneInt(Get(diagnostics(nm), "confidence"), Get(nm, "confidence"))
            /\ data.gbif_match_type =
                  FirstNotNoneStr(Get(diagnostics(nm), "matchType"), NoneStr,
                                  Get(nm, "matchType"))

(* C9: when the vernacular-names call or the occurrence-metrics call raises
   after a successful primary match, the returned record still has
   lookup_success = true, every primary field as parsed and no lookup_error,
   and a failure of the vernacular call does not keep the metrics call from
   being made. *)
C9_SecondaryFailuresAreNotFatal ==
    ( /\ qry.pc = "done"
      /\ ~Raised(qry.primary)
      /\ TruthyDict(qry.primary.value)
      /\ ~ParseRaises(qry.primary.value)
      /\ TruthyInt(ParseMatch(qry.primary.value, clock).gbif_usage_key)
      /\ (VernacularRaises(qry.vern) \/ Raised(qry.metrics)) ) =>
        LET parsed == ParseMatch(qry.primary.value, clock)
            out == qry.out
        IN  /\ out.ret = "dict"
            /\ out.data.lookup_success
            /\ "lookup_error" \notin DOMAIN out.data
            /\ \A k \in DOMAIN parsed : out.data[k] = parsed[k]
            /\ VernacularRaises(qry.vern) =>
                  /\ "metrics" \in Range(out.calls)
                  /\ (~Raised(qry.metrics) /\ TruthyDict(qry.metrics.value)
                        /\ "numOccurrences" \in DOMAIN qry.metrics.value) =>
                         out.data["num_occurrences"] = qry.metrics.value["numOccurrences"]

C9_Witness ==
    /\ qry.pc = "done"
    /\ Raised(qry.vern)
    /\ qry.out.ret = "dict"
    /\ qry.out.data.lookup_success
    /\ "num_occurrences" \in DOMAIN qry.out.data
    /\ "vernacular_names" \notin DOMAIN qry.out.data

\* the names whose record in the session differs from the committed one
DirtyNames ==
    {n \in DOMAIN taxa : ~Has(taxaCommitted, n) \/ taxa[n] # taxaCommitted[n]}

(* C10: at every point of a resolver run at most one batch of 10 processed
   names is uncommitted, so an abnormal termination loses the writes of at most
   10 names; the commits come once per 10 processed names, neither after each
   name nor only at the end. *)
C10_BatchedCommits ==
    /\ res.maxUncommitted <= RESOLVER_BATCH
    /\ Cardinality(DirtyNames) <= RESOLVER_BATCH
    /\ Cardinality(res.uncommitted) <= RESOLVER_BATCH
    /\ res.status \in {"running", "crashed"} =>
          res.commits = (res.new_lookups + res.updated_lookups) \div RESOLVER_BATCH

C10_Witness ==
    /\ stage = "resolver"
    /\ res.maxUncommitted = RESOLVER_BATCH
    /\ res.commits = 1
    /\ Cardinality(DirtyNames) = 1
    /\ res.remaining = {}

\* the pairs the running or last linker run has gone through
ProcessedPairs == comment_image_pairs \ lnk.remaining

(* C11: a pair whose extracted name has no TaxonomicName record gets no link,
   is counted in skipped_links and reported with its comment and name, and the
   run goes on to the other pairs; every stored link's common_name has a
   TaxonomicName record. *)
C11_UnresolvedPairsSkipped ==
    /\ \A k \in DOMAIN links : Has(taxa, links[k].common_name)
    /\ \A k \in DOMAIN linksCommitted : Has(taxaCommitted, linksCommitted[k].common_name)
    /\ lnk.status \in {"running", "done"} =>
          LET unresolved == {p \in ProcessedPairs :
                               ~Has(taxa, comments[p[1]].extracted_name)}
          IN  /\ \A p \in unresolved :
                    /\ ~Has(links, <<p[2], comments[p[1]].extracted_name>>)
                    /\ <<p[1], comments[p[1]].extracted_name>> \in lnk.reported
              /\ lnk.skipped_links >= Cardinality(unresolved)
    /\ lnk.status = "done" => lnk.remaining = {}

C11_Witness ==
    /\ lnk.status = "done"
    /\ lnk.reported # {}
    /\ lnk.new_links >= 1
    /\ \E p \in ProcessedPairs : ~Has(taxa, comments[p[1]].extracted_name)

(* C12: there is at most one link per (image_id, common_name): a pair whose key
   already has a link, from an earlier run or from another comment earlier in
   the same run, updates that link in place; the run never adds a second row
   for the key and never fails on a duplicate key. *)
C12_OneLinkPerKey ==
    /\ lnk.status # "failed"
    /\ \A k \in DOMAIN links : links[k].image_id = k[1] /\ links[k].common_name = k[2]
    /\ lnk.status \in {"running", "done"} =>
          /\ DOMAIN lnk.start \subseteq DOMAIN links
          /\ Cardinality(DOMAIN links \ DOMAIN lnk.start) = lnk.new_links
          /\ \A p \in ProcessedPairs :
                Has(taxa, comments[p[1]].extracted_name) =>
                    Has(links, <<p[2], comments[p[1]].extracted_name>>)

C12_Witness ==
    /\ lnk.status = "done"
    /\ lnk.start = NoRows
    /\ lnk.new_links = 1
    /\ lnk.updated_links = 1
    /\ Cardinality(ProcessedPairs) = 2

(* C13: for every raw string normalize_insect_name returns None or a string
   longer than 2 characters that is not in INVALID_NAMES; a raw string whose
   lower-cased, spacing-normalized form is in INVALID_NAMES is rejected, and so
   is one whose fully transformed form is. *)
C13_NormalizedNamesAreValid ==
    nrm.pc = "done" =>
        /\ nrm.out = NoneText \/ (Len(nrm.out) > 2 /\ nrm.out \notin INVALID_NAMES)
        /\ (nrm.raw # NoneText
              /\ normalize_spacing(str_lower(strip(nrm.raw, WHITESPACE))) \in INVALID_NAMES)
               => nrm.out = NoneText

C13_Witness ==
    /\ nrm.pc = "done"
    /\ nrm.raw = <<"m", "y", "s", "t", "e", "r", "y", " ", "b", "u", "g", "s">>
    /\ nrm.out = NoneText

(* C14: a name returned by normalize_insect_name is a fixed point of it:
   normalizing it again returns exactly the same name. *)
C14_CanonicalNamesAreFixedPoints ==
    (nrm.pc = "done" /\ nrm.out # NoneText) => normalize_insect_name(nrm.out) = nrm.out

(* C15: normalize_insect_name("roaches") = "cockroach",
   normalize_insect_name("lady beetles") = "ladybug" and
   normalize_insect_name("Book Lice") = "booklouse". *)
C15_SynonymExamples ==
    nrm.pc = "done" =>
        /\ nrm.raw = <<"r", "o", "a", "c", "h", "e", "s">>
               => nrm.out = <<"c", "o", "c", "k", "r", "o", "a", "c", "h">>
        /\ nrm.raw = <<"l", "a", "d", "y", " ", "b", "e", "e", "t", "l", "e", "s">>
               => nrm.out = <<"l", "a", "d", "y", "b", "u", "g">>
        /\ nrm.raw = <<"B", "o", "o", "k", " ", "L", "i", "c", "e">>
               => nrm.out = <<"b", "o", "o", "k", "l", "o", "u", "s", "e">>

(* C16: comment 1, on the post of image 1, mentions a roach; the extractor
   returns 'roach' with confidence 0.9, no other comment has a name and no link
   (image 1, 'cockroach') is stored. Once normalization, resolution (the
   authority matches 'cockroach' with confidence 90, class Insecta) and linking
   have completed in that order, comment 1 holds 'cockroach', the TaxonomicName
   'cockroach' has is_insect "True", and there is one link (image 1,
   'cockroach'), from comment 1, with quality 0.81. *)
C16_Scenario ==
    /\ hist.chain = 3
    /\ lnk.status = "done"
    /\ ~Has(lnk.start, <<1, Cockroach>>)
    /\ Has(hist.mention, 1) /\ hist.mention[1] = Roach
    /\ comments[1].extracted_name # NoneInt
    /\ comments[1].extracted_name_confidence = 9
    /\ \A c \in DOMAIN comments \ {1} : comments[c].extracted_name = NoneInt

C16_RoachEndToEnd ==
    C16_Scenario =>
        /\ comments[1].extracted_name = Cockroach
        /\ Has(taxa, Cockroach)
        /\ taxa[Cockroach].is_insect = "True"
        /\ taxa[Cockroach].gbif_confidence = 90
        /\ Cardinality({k \in DOMAIN links : k[1] = 1 /\ links[k].common_name = Cockroach}) = 1
        /\ Has(links, <<1, Cockroach>>)
        /\ links[<<1, Cockroach>>].comment_id = 1
        /\ links[<<1, Cockroach>>].extraction_confidence = 9
        /\ links[<<1, Cockroach>>].gbif_confidence = 90
        /\ links[<<1, Cockroach>>].label_quality_score = 810

C16_Witness ==
    /\ C16_Scenario
    /\ lnk.new_links = 1
    /\ links[<<1, Cockroach>>].label_quality_score = 810

(* C17: when normalization, resolution and linking have completed in that
   order and are run again in that order, with no comment added or extracted
   in between and the authority giving the same answers, the second pass leaves
   the extracted names, the set of TaxonomicName keys and the links as the
   first pass left them. *)
C17_SecondPassChangesNothing ==
    /\ hist.chain >= 4 =>
          [c \in DOMAIN comments |-> comments[c].extracted_name] = hist.snap.names
    /\ hist.chain >= 5 => DOMAIN taxa = hist.snap.keys
    /\ hist.chain = 6 => links = hist.snap.links

(* C18: the linker creates or updates a link for every pair whose extracted
   name has a TaxonomicName record, whatever the record's is_insect value: a
   name resolved as a non-insect, or with no classification at all, is linked
   like an insect. *)
C18_NonInsectsAreLinked ==
    lnk.status \in {"running", "done"} =>
        \A p \in ProcessedPairs :
            LET name == comments[p[1]].extracted_name
            IN  Has(taxa, name) =>
                    /\ Has(links, <<p[2], name>>)
                    /\ links[<<p[2], name>>].gbif_confidence = taxa[name].gbif_confidence

C18_Witness ==
    /\ lnk.status = "done"
    /\ \E p \in ProcessedPairs :
          LET name == comments[p[1]].extracted_name
          IN  /\ Has(taxa, name)
              /\ taxa[name].is_insect = "False"
              /\ Has(links, <<p[2], name>>)
              /\ ~Has(lnk.start, <<p[2], name>>)

(* C19: a step of the linker leaves every Comment and every TaxonomicName row
   as it was, a step of the resolver leaves every Comment and every link as it
   was, the TaxonomicName table changes only in a step of the resolver and the
   link table only in a step of the linker. *)
C19_Ownership ==
    [][ /\ stage = "linker" =>
              comments' = comments /\ taxa' = taxa /\ taxaCommitted' = taxaCommitted
        /\ stage = "resolver" =>
              comments' = comments /\ links' = links /\ linksCommitted' = linksCommitted
        /\ (taxa' # taxa \/ taxaCommitted' # taxaCommitted) => stage = "resolver"
        /\ (links' # links \/ linksCommitted' # linksCommitted) => stage = "linker" ]_vars

C19_Witness ==
    /\ hist.chain = 3
    /\ lnk.status = "done"
    /\ lnk.new_links >= 1
    /\ DOMAIN taxa # {}
    /\ \E c \in DOMAIN comments : comments[c].extracted_name # NoneInt

(* C20: once extraction has set a comment's extracted_name and
   extracted_name_confidence, no step of any stage changes the confidence or
   removes the name, except that normalization clears both when the name is
   invalid; in particular populate_comments run again on a stored comment
   leaves both as they are, and the extractor is not applied again to a comment
   that has a name. *)
C20_ExtractionIsImmutable ==
    [][ \A c \in DOMAIN comments :
          comments[c].extracted_name # NoneInt =>
              \/ /\ comments'[c].extracted_name # NoneInt
                 /\ comments'[c].extracted_name_confidence =
                        comments[c].extracted_name_confidence
                 /\ hist'.mention[c] = hist.mention[c]
              \/ /\ normalized_name(comments[c].extracted_name) = NoneInt
                 /\ comments'[c].extracted_name = NoneInt
                 /\ comments'[c].extracted_name_confidence = NoneInt
                 /\ hist'.mention[c] = hist.mention[c] ]_vars

\* strings that differ from s only in letter case, in leading or trailing
\* whitespace, in the length of whitespace runs, or in hyphens for spaces
upper_char(ch) ==
    IF \E k \in DOMAIN LOWERCASE : LOWERCASE[k] = ch
    THEN UPPERCASE[CHOOSE k \in DOMAIN LOWERCASE : LOWERCASE[k] = ch]
    ELSE ch

SpellingVariants(s) ==
    { [k \in 1..Len(s) |-> upper_char(s[k])],
      str_lower(s),
      [k \in 1..Len(s) |-> IF k % 2 = 1 THEN upper_char(s[k]) ELSE lower_char(s[k])],
      <<" ", "\t">> \o s \o <<" ">>,
      replace(s, <<" ">>, <<" ", " ", "\t">>),
      replace(s, <<" ">>, <<"-">>),
      replace(s, <<"-">>, <<" ">>),
      replace(s, <<" ">>, <<" ", "-", " ">>) }

(* C21: raw strings that differ only in letter case, in leading or trailing
   whitespace, in the length of whitespace runs or in hyphens for spaces
   between words normalize to the same result; a returned name is lowercase,
   has no leading or trailing space, no two consecutive spaces and no hyphen. *)
C21_SpellingIsIgnored ==
    (nrm.pc = "done" /\ nrm.raw # NoneText) =>
        /\ \A v \in SpellingVariants(nrm.raw) : normalize_insect_name(v) = nrm.out
        /\ nrm.out # NoneText =>
              /\ str_lower(nrm.out) = nrm.out
              /\ \A k \in 1..Len(nrm.out) : nrm.out[k] \notin {"-", "\t"}
              /\ nrm.out[1] # " " /\ nrm.out[Len(nrm.out)] # " "
              /\ \A k \in 1..(Len(nrm.out) - 1) : ~(nrm.out[k] = " " /\ nrm.out[k + 1] = " ")

C21_Witness ==
    /\ nrm.pc = "done"
    /\ nrm.raw = <<"B", "o", "o", "k", "-", "L", "i", "c", "e">>
    /\ nrm.out = <<"b", "o", "o", "k", "l", "o", "u", "s", "e">>
    /\ normalize_insect_name(<<"b", "o", "o", "k", " ", "l", "i", "c", "e">>) = nrm.out

(* C22: the singular and the regular plural of a name covered by a phrase rule
   normalize to the same name: normalize_insect_name('daddy long leg') =
   normalize_insect_name('daddy long legs'), and likewise for 'lady beetle'
   and 'lady beetles'. *)
C22_PhrasePluralsAgree ==
    (nrm.pc = "done"
       /\ nrm.raw \in { <<"d", "a", "d", "d", "y", " ", "l", "o", "n", "g", " ", "l", "e", "g">>,
                        <<"l", "a", "d", "y", " ", "b", "e", "e", "t", "l", "e">> }
       /\ HasKey(PHRASE_REPLACEMENTS, nrm.raw))
        => normalize_insect_name(nrm.raw \o <<"s">>) = nrm.out

(* C30: every entry of the rule tables is effective on raw input: for a key of
   WORD_SYNONYMS normalize_insect_name returns what it returns for the mapped
   value, and for an entry of INVALID_NAMES it returns None. *)
C30_RuleTablesAreEffective ==
    nrm.pc = "done" =>
        /\ HasKey(WORD_SYNONYMS, nrm.raw) =>
              nrm.out = normalize_insect_name(ValueOf(WORD_SYNONYMS, nrm.raw))
        /\ nrm.raw \in INVALID_NAMES => nrm.out = NoneText

\* the links written in the session and not committed
DirtyLinks ==
    {k \in DOMAIN links : ~Has(linksCommitted, k) \/ linksCommitted[k] # links[k]}

(* C23: at every point of a linker run the link writes not yet committed,
   creations and in-place updates together, are at most one batch of 100, so
   an abnormal termination loses at most 100 link writes. *)
C23_LinkWritesBatched ==
    Cardinality(DirtyLinks) <= LINK_BATCH

(* C24: when the extractor raises on a comment, that comment's extracted_name
   and extracted_name_confidence stay unset, the extractions stored for the
   comments gone through before stay, and the run goes through every comment
   it selected; only an entity of type 'insect_common_name' is written to a
   comment. *)
C24_ExtractorFailuresAreSkipped ==
    /\ \A c \in DOMAIN ext.results :
          LET results == ext.results[c]
              common == IF results.kind = "results"
                           /\ "insect_common_name" \in DOMAIN results.entities
                        THEN results.entities["insect_common_name"]
                        ELSE <<>>
          IN  IF common # <<>> /\ common[1].text # NoneInt
              THEN /\ comments[c].extracted_name = common[1].text
                   /\ comments[c].extracted_name_confidence = common[1].confidence
              ELSE /\ comments[c].extracted_name = NoneInt
                   /\ comments[c].extracted_name_confidence = NoneInt
    /\ ext.status \in {"running", "done"} =>
          DOMAIN ext.results = ext.selected \ ext.remaining
    /\ ext.status = "done" => ext.remaining = {}

C24_Witness ==
    /\ ext.status = "done"
    /\ ext.selected = {1, 2}
    /\ ext.results[1].kind = "raise"
    /\ comments[1].extracted_name = NoneInt
    /\ ext.results[2].kind = "results"
    /\ "insect_genus" \in DOMAIN ext.results[2].entities
    /\ comments[2].extracted_name = 1

(* C25: a TaxonomicName record with lookup_success true has lookup_error null:
   a successful lookup of a name whose earlier lookup failed with an error
   clears the stored error. *)
C25_SuccessClearsError ==
    \A n \in DOMAIN taxa :
        taxa[n].lookup_success = TRUE => taxa[n].lookup_error = NoneStr

(* C28: when the lookup of a name that already has a record fails, by an error
   or by no match, the resolver changes only lookup_success, lookup_timestamp
   and, on an error, lookup_error of the record; every other stored field is
   left as it was, and no record is deleted. *)
C28_FailedRelookupKeepsTaxonomy ==
    res.status \in {"running", "done"} =>
        /\ DOMAIN res.start \subseteq DOMAIN taxa
        /\ \A n \in DOMAIN res.outcome :
              (Has(res.start, n) /\ res.outcome[n] \in {"raise", "no match"}) =>
                  taxa[n] = [res.start[n] EXCEPT
                                !.lookup_success = FALSE,
                                !.lookup_timestamp = clock,
                                !.lookup_error = IF res.outcome[n] = "raise"
                                                 THEN res.cause[n] ELSE @]

C28_Witness ==
    /\ res.status = "done"
    /\ \E n \in DOMAIN res.outcome :
          /\ Has(res.start, n)
          /\ res.start[n].lookup_success = TRUE
          /\ res.start[n].is_insect = "True"
          /\ res.outcome[n] = "raise"
          /\ taxa[n].lookup_success = FALSE
          /\ taxa[n].gbif_confidence = 90
          /\ taxa[n].is_insect = "True"

(* C27: after a completed resolver run followed by a completed linker run (here
   both after a normalization), every stored link's gbif_confidence is the
   current gbif_confidence of the TaxonomicName record of its common_name,
   whatever happened to the comments in earlier runs. *)
C27_LinksFollowTaxonomy ==
    (hist.chain \in {3, 6} /\ lnk.status = "done") =>
        \A k \in DOMAIN links :
            /\ Has(taxa, links[k].common_name)
            /\ links[k].gbif_confidence = taxa[links[k].common_name].gbif_confidence

(* C26: after a completed linker run, the extraction_confidence and the
   comment_upvotes of each link the run went through are those of the comment
   named by the link's comment_id, also when several comments of the post carry
   the same name with different confidences. *)
C26_LinkMatchesItsComment ==
    lnk.status = "done" =>
        \A p \in ProcessedPairs :
            LET key == <<p[2], comments[p[1]].extracted_name>>
            IN  Has(links, key) =>
                    /\ links[key].comment_id \in DOMAIN comments
                    /\ links[key].extraction_confidence =
                           comments[links[key].comment_id].extracted_name_confidence
                    /\ links[key].comment_upvotes = comments[links[key].comment_id].upvotes

\* C29: a call of retrieve_post_data ends for every sequence of responses:
\* under 429 after 429 the requests are bounded, the sleeps grow strictly and
\* each sleep is below the max_backoff the caller passed, and the call then
\* raises; a 200 or a 404 is returned, any other status raises at once.
C29_BackoffBelowPassedMaximum ==
    rpd.pc # "idle" =>
        /\ rpd.requests <= 16
        /\ \A i \in 1..Len(rpd.sleeps) :
              /\ rpd.sleeps[i] < rpd.passed
              /\ i > 1 => rpd.sleeps[i - 1] < rpd.sleeps[i]
        /\ rpd.pc = "returned" <=> rpd.status_code \in {200, 404}
        /\ rpd.pc = "raised" =>
              /\ rpd.status_code \notin {200, 404}
              /\ rpd.status_code = 429 => rpd.backoff >= rpd.max_backoff
        /\ rpd.pc = "request" => rpd.status_code \in {NoneInt, 429}

====
